---- MODULE Spec2Model ----
(***************************************************************************)
(* Themis port registry: the port allocation engine (package port,         *)
(* PortManager) as a state machine.                                        *)
(*                                                                         *)
(* Callers are goroutines (one per inbound request).  Every access to      *)
(* shared memory is its own step: the PortManager reads minPort / maxPort  *)
(* without taking pm.mu, so those reads interleave with the two writes of  *)
(* SetPortRange, which are made while pm.mu is held.                       *)
(*                                                                         *)
(* The application registry (package storage, AppPortStorage) keeps the    *)
(* name -> port map in memory and writes it to its data file: saveToFile   *)
(* copies the map under the read lock and writes the copy without a lock.  *)
(* The request handlers of PortServer combine the two.                     *)
(***************************************************************************)
EXTENDS Integers, Sequences, FiniteSets, TLC

\* ------------------------------------------------------------------ bounds
\* largest port number the callers use as an argument or a range bound
MaxPort == 3
\* largest count passed to GetRandomPorts
MaxCount == 2
\* attempts of one allocation call that are followed while other callers run
MaxConcAttempts == 2

\* ------------------------------------------------------- program constants
\* GetRandomPort: for i := 0; i < 100; i++
OneAttempts == 100
\* GetRandomPorts: for i := 0; i < count*100 && ...
AttemptsPerPort == 100
\* largest valid port number (the adapter's and the registry's range check)
PortLimit == 65535

\* ------------------------------------------------------------------ inputs
NoProc == "none"
\* the goroutines (one per request); each specification says what they call
G1 == "g1"
G2 == "g2"
Procs == {G1, G2}
PortArgs == 1..MaxPort
\* bounds passed to SetPortRange: a non-positive one, the smallest, the largest
RangeVals == {0, 1, MaxPort}
\* bounds passed to SetPortRange around the largest valid port number
WideVals == {0, 1, PortLimit, PortLimit + 1}
CountArgs == 0..MaxCount
\* ranges a validated configuration hands to NewPortManager
InitRanges == {<<1, MaxPort>>}
\* the background goroutines StartAutoSync can start
Loops == {"l1", "l2"}
Flushers == Procs \cup Loops
\* application names: the registered ones, and the empty name
Names == {"a", "b"}
NameArgs == {""} \cup Names
\* ports passed to SetAppPort: the ends of the valid range and their neighbours
AppPortArgs == {0, 1, PortLimit, PortLimit + 1}

VARIABLES
    minPort,    \* pm.minPort
    maxPort,    \* pm.maxPort
    usedPorts,  \* pm.usedPorts, as the set of its keys
    mu,         \* pm.mu: the goroutine holding the write lock, or NoProc
    pc,         \* per goroutine: position in the method it runs
    opName,     \* per goroutine: the method it runs or ran last
    argA,       \* per goroutine: first argument (port, count, minPort)
    argB,       \* per goroutine: second argument (maxPort)
    i,          \* per goroutine: loop counter of GetRandomPort(s)
    ports,      \* per goroutine: result slice of GetRandomPorts
    rmax,       \* per goroutine: value read from pm.maxPort for rand.Intn
    k,          \* per goroutine: value returned by rand.Intn
    port,       \* per goroutine: the port under examination
    ret,        \* per goroutine: what the last call returned
    probes,     \* history: IsPortAvailable calls made by the current call
    after,      \* history: the examined port was handed out, and not released
                \* since, when its examination began
    seen,       \* history: ranges that were active during the current
                \* GetRandomPort call
    active,     \* history: the range as of the last completed SetPortRange
    appPorts,   \* s.appPorts: a function from the registered names to ports
    file,       \* the content of s.dataFile
    smu,        \* s.mu: the goroutines that hold its read lock
    snap,       \* per goroutine: portData.AppPorts, its copy of the map
    flushed,    \* per goroutine: what its last saveToFile returned
    cov,        \* history: the names not set or deleted since the goroutine
                \* copied the map
    stopChan,   \* s.stopChan has been closed
    lpc,        \* per background goroutine: its position in the flush loop
    app,        \* per goroutine: the appName argument of its registry call
    hnd         \* per goroutine: the PortServer handler it runs

vars == <<minPort, maxPort, usedPorts, mu, pc, opName, argA, argB, i, ports,
          rmax, k, port, ret, probes, after, seen, active,
          appPorts, file, smu, snap, flushed, cov, stopChan, lpc, app, hnd>>

shared == <<minPort, maxPort, usedPorts, mu>>
locals == <<i, ports, rmax, k, port>>
\* the registry and the handlers: what no method of PortManager touches
store == <<appPorts, file, smu, snap, flushed, cov, stopChan, lpc, app, hnd>>
\* the port manager's memory and the history kept about it
manager == <<minPort, maxPort, usedPorts, mu, after, active>>

\* a map with no entry, and the data file before its first write
EmptyMap == [n \in {} |-> 0]
NoFile == [kind |-> "absent", body |-> {}]
NoHandler == [op |-> "none", app |-> "", at |-> "none", port |-> 0, err |-> FALSE]

NoRet == [st |-> "none", val |-> <<>>]
Ret(s, v) == [st |-> s, val |-> v]

Range(s) == {s[n] : n \in 1..Len(s)}

\* the data file at start: not there, zero-length, without app_ports, not
\* JSON, or what an earlier run wrote
InitFiles ==
    {NoFile,
     [kind |-> "empty", body |-> {}],
     [kind |-> "null", body |-> {}],
     [kind |-> "bad", body |-> {}],
     [kind |-> "json", body |-> {<<"a", 1>>}]}

\* NewPortManager(cfg.Port.MinPort, cfg.Port.MaxPort) and
\* NewAppPortStorage(cfg.Storage.DataFile, syncInterval), the data file being
\* one of files
InitWith(files) ==
    /\ \E r \in InitRanges :
          /\ minPort = r[1]
          /\ maxPort = r[2]
          /\ active = r
    /\ usedPorts = {}
    /\ mu = NoProc
    /\ pc = [p \in Procs |-> "idle"]
    /\ opName = [p \in Procs |-> "none"]
    /\ argA = [p \in Procs |-> 0]
    /\ argB = [p \in Procs |-> 0]
    /\ i = [p \in Procs |-> 0]
    /\ ports = [p \in Procs |-> <<>>]
    /\ rmax = [p \in Procs |-> 0]
    /\ k = [p \in Procs |-> 0]
    /\ port = [p \in Procs |-> 0]
    /\ ret = [p \in Procs |-> NoRet]
    /\ probes = [p \in Procs |-> 0]
    /\ after = [p \in Procs |-> FALSE]
    /\ seen = [p \in Procs |-> {}]
    /\ appPorts = EmptyMap
    /\ file \in files
    /\ smu = {}
    /\ snap = [f \in Flushers |-> EmptyMap]
    /\ flushed = [f \in Flushers |-> "none"]
    /\ cov = [p \in Procs |-> {}]
    /\ stopChan = FALSE
    /\ lpc = [l \in Loops |-> "none"]
    /\ app = [p \in Procs |-> ""]
    /\ hnd = [p \in Procs |-> NoHandler]

\* the port manager's specifications start without a data file
Init == InitWith({NoFile})

\* the registry's specifications start with any data file
InitStore == InitWith(InitFiles)

\* ------------------------------------------------------ pure code fragments
\* GetRandomPort: i < 100;  GetRandomPorts: i < count*100 && len(ports) < count
LoopContinues(name, n, count, found) ==
    IF name = "GetRandomPort"
       THEN n < OneAttempts
       ELSE n < count * AttemptsPerPort /\ found < count

\* the duplicate check finds nothing
AlreadyExistsNever(ps, p) == FALSE

\* GetRandomPorts: for _, p := range ports { if p == port { alreadyExists = true } }
AlreadyExists(ps, p) == \E n \in 1..Len(ps) : ps[n] = p

\* the reservation set is not consulted
IsUsedNever(used, p) == FALSE

\* IsPortAvailable: used := pm.usedPorts[port]
IsUsed(used, p) == p \in used

\* markPortAsUsed: pm.usedPorts[port] = true
MarkPortAsUsed(used, p) == used \cup {p}

\* the release deletes nothing
ReleasedNothing(used, p) == used

\* ReleasePort: delete(pm.usedPorts, port)
Released(used, p) == used \ {p}

\* the validation forgets minPort > maxPort
ValidRangeNoOrder(mn, mx) == ~(mn <= 0 \/ mx <= 0)

\* SetPortRange: minPort <= 0 || maxPort <= 0 || minPort > maxPort is rejected
ValidRange(mn, mx) == ~(mn <= 0 \/ mx <= 0 \/ mn > mx)

\* the error is returned only when no port at all was found
ManyResultNoPartial(ps, count) ==
    IF Len(ps) = 0 THEN Ret("exhausted", ps) ELSE Ret("ok", ps)

\* GetRandomPorts: what the call returns once the loop has ended
ManyResult(ps, count) ==
    IF Len(ps) < count THEN Ret("exhausted", ps) ELSE Ret("ok", ps)

\* the ports some call has reserved and returned, and nobody released since:
\* the marked ports other than those an unfinished GetRandomPorts holds
Handed == usedPorts \ UNION {Range(ports[p]) : p \in Procs}

IsAlloc(name) == name \in {"GetRandomPort", "GetRandomPorts"}
Allocating(p) == IsAlloc(opName[p]) /\ pc[p] # "idle"

\* ------------------------------------------------------------ step helpers
\* a goroutine enters method name with arguments a, b at position at
Enter(self, name, a, b, at, r) ==
    /\ pc[self] = "idle"
    /\ pc' = [pc EXCEPT ![self] = at]
    /\ opName' = [opName EXCEPT ![self] = name]
    /\ argA' = [argA EXCEPT ![self] = a]
    /\ argB' = [argB EXCEPT ![self] = b]
    /\ ret' = [ret EXCEPT ![self] = r]
    /\ probes' = [probes EXCEPT ![self] = 0]
    /\ seen' = [seen EXCEPT ![self] = IF name = "GetRandomPort" THEN {active} ELSE {}]
    /\ UNCHANGED <<shared, i, ports, rmax, k, active>>

\* a method that is one critical section is called and returns r
Return(self, name, a, b, r) ==
    /\ opName' = [opName EXCEPT ![self] = name]
    /\ argA' = [argA EXCEPT ![self] = a]
    /\ argB' = [argB EXCEPT ![self] = b]
    /\ ret' = [ret EXCEPT ![self] = r]
    /\ probes' = [probes EXCEPT ![self] = 0]
    /\ seen' = [seen EXCEPT ![self] = {}]
    /\ UNCHANGED <<pc, i, ports, rmax, k, port>>

\* the method returns r
Done(self, r) ==
    /\ pc' = [pc EXCEPT ![self] = "idle"]
    /\ ret' = [ret EXCEPT ![self] = r]
    /\ i' = [i EXCEPT ![self] = 0]
    /\ ports' = [ports EXCEPT ![self] = <<>>]
    /\ rmax' = [rmax EXCEPT ![self] = 0]
    /\ k' = [k EXCEPT ![self] = 0]
    /\ port' = [port EXCEPT ![self] = 0]
    /\ UNCHANGED <<opName, argA, argB, probes>>

\* an allocation call returns r: the ports of r are handed out
AllocDone(self, r) ==
    /\ Done(self, r)
    /\ after' = [after EXCEPT ![self] = FALSE]
    /\ UNCHANGED <<seen, active>>

\* the goroutine panics; nothing recovers it, and the process ends with all
\* its goroutines
Panic(self) ==
    /\ pc' = [p \in Procs |-> "crashed"]
    /\ ret' = [ret EXCEPT ![self] = Ret("panic", <<>>)]
    /\ UNCHANGED <<opName, argA, argB, i, ports, rmax, k, port, probes,
                   after, seen, active>>

\* the position moves to at, nothing else changes
Goto(self, at) ==
    /\ pc' = [pc EXCEPT ![self] = at]
    /\ UNCHANGED <<opName, argA, argB, i, ports, rmax, k, port, ret,
                   probes, after, seen, active>>

\* i++ and back to the loop condition, the result slice being ps
NextAttempt(self, ps) ==
    /\ pc' = [pc EXCEPT ![self] = "loop"]
    /\ i' = [i EXCEPT ![self] = @ + 1]
    /\ ports' = [ports EXCEPT ![self] = ps]
    /\ port' = [port EXCEPT ![self] = 0]
    /\ after' = [after EXCEPT ![self] = FALSE]
    /\ UNCHANGED <<opName, argA, argB, rmax, k, ret, probes, seen, active>>

\* IsPortAvailable(port) returns false
NotAvailable(self) ==
    IF opName[self] = "IsPortAvailable"
       THEN /\ Done(self, Ret("false", <<>>))
            /\ UNCHANGED <<after, seen, active>>
       ELSE NextAttempt(self, ports[self])

\* IsPortAvailable(port) returns true
Available(self) ==
    CASE opName[self] = "IsPortAvailable" ->
            /\ Done(self, Ret("true", <<>>))
            /\ UNCHANGED <<after, seen, active>>
      [] opName[self] = "GetRandomPort" -> Goto(self, "mark")
      [] OTHER ->
            IF AlreadyExists(ports[self], port[self])
               THEN NextAttempt(self, ports[self])
               ELSE Goto(self, "mark")

\* ------------------------------------------------------------------ steps
CallGetRandomPort(self) ==
    /\ Enter(self, "GetRandomPort", 0, 0, "loop", NoRet)
    /\ after' = [after EXCEPT ![self] = FALSE]
    /\ UNCHANGED port
    /\ UNCHANGED store

\* GetRandomPorts: if count <= 0 { return nil, error }
CallGetRandomPorts(self, count) ==
    /\ IF count <= 0
          THEN Enter(self, "GetRandomPorts", count, 0, "idle", Ret("invalid", <<>>))
          ELSE Enter(self, "GetRandomPorts", count, 0, "loop", NoRet)
    /\ after' = [after EXCEPT ![self] = FALSE]
    /\ UNCHANGED port
    /\ UNCHANGED store

\* the loop condition, then the read of pm.maxPort for rand.Intn; solo says
\* that no other goroutine runs, and then the call is followed to its end
AllocLoop(self, solo) ==
    /\ pc[self] = "loop"
    /\ IF LoopContinues(opName[self], i[self], argA[self], Len(ports[self]))
          THEN /\ solo \/ i[self] < MaxConcAttempts
               /\ pc' = [pc EXCEPT ![self] = "rdmin"]
               /\ rmax' = [rmax EXCEPT ![self] = maxPort]
               /\ UNCHANGED <<opName, argA, argB, i, ports, k, port, ret,
                              probes, after, seen, active>>
          ELSE AllocDone(self, IF opName[self] = "GetRandomPort"
                                  THEN Ret("exhausted", <<>>)
                                  ELSE ManyResult(ports[self], argA[self]))
    /\ UNCHANGED shared
    /\ UNCHANGED store

\* IsPortAvailable(port) begins: one more probe
Examine(self, p) ==
    /\ port' = [port EXCEPT ![self] = p]
    /\ after' = [after EXCEPT ![self] = p \in Handed]
    /\ probes' = [probes EXCEPT ![self] = @ + 1]
    /\ pc' = [pc EXCEPT ![self] = "chkmin"]
    /\ rmax' = [rmax EXCEPT ![self] = 0]

\* the read of pm.minPort and rand.Intn(pm.maxPort-pm.minPort+1), which
\* panics when its argument is not positive.  The second operand of
\* rand.Intn(...) + pm.minPort is read before the call (the same value) or
\* after it (AllocDraw): the language leaves the order open
AllocIntn(self) ==
    /\ pc[self] = "rdmin"
    /\ LET n == rmax[self] - minPort + 1 IN
          IF n <= 0
             THEN Panic(self)
             ELSE \E kk \in 0..(n - 1) :
                     \/ /\ Examine(self, kk + minPort)
                        /\ UNCHANGED <<opName, argA, argB, i, ports, k, ret,
                                       seen, active>>
                     \/ /\ k' = [k EXCEPT ![self] = kk]
                        /\ rmax' = [rmax EXCEPT ![self] = 0]
                        /\ pc' = [pc EXCEPT ![self] = "rdbase"]
                        /\ UNCHANGED <<opName, argA, argB, i, ports, port, ret,
                                       probes, after, seen, active>>
    /\ UNCHANGED shared
    /\ UNCHANGED store

\* port := rand.Intn(...) + pm.minPort with pm.minPort read after the call
AllocDraw(self) ==
    /\ pc[self] = "rdbase"
    /\ Examine(self, k[self] + minPort)
    /\ k' = [k EXCEPT ![self] = 0]
    /\ UNCHANGED <<shared, opName, argA, argB, i, ports, ret, seen, active>>
    /\ UNCHANGED store

CallIsPortAvailable(self, p) ==
    /\ Enter(self, "IsPortAvailable", p, 0, "chkmin", NoRet)
    /\ port' = [port EXCEPT ![self] = p]
    /\ after' = [after EXCEPT ![self] = p \in Handed]
    /\ UNCHANGED store

\* IsPortAvailable: port < pm.minPort (read without the lock)
CheckMin(self) ==
    /\ pc[self] = "chkmin"
    /\ IF port[self] < minPort THEN NotAvailable(self) ELSE Goto(self, "chkmax")
    /\ UNCHANGED shared
    /\ UNCHANGED store

\* IsPortAvailable: port > pm.maxPort (read without the lock)
CheckMax(self) ==
    /\ pc[self] = "chkmax"
    /\ IF port[self] > maxPort THEN NotAvailable(self) ELSE Goto(self, "chkused")
    /\ UNCHANGED shared
    /\ UNCHANGED store

\* IsPortAvailable: RLock; used := pm.usedPorts[port]; RUnlock; and, when the
\* port is not marked, checkPortBySocket, whose result is the OS's
CheckUsed(self) ==
    /\ pc[self] = "chkused"
    /\ mu = NoProc
    /\ IF IsUsed(usedPorts, port[self])
          THEN NotAvailable(self)
          ELSE \E bindable \in BOOLEAN :
                  IF bindable THEN Available(self) ELSE NotAvailable(self)
    /\ UNCHANGED shared
    /\ UNCHANGED store

\* markPortAsUsed(port) under the write lock, then return port (GetRandomPort)
\* or ports = append(ports, port) (GetRandomPorts)
Mark(self) ==
    /\ pc[self] = "mark"
    /\ mu = NoProc
    /\ usedPorts' = MarkPortAsUsed(usedPorts, port[self])
    /\ IF opName[self] = "GetRandomPort"
          THEN AllocDone(self, Ret("ok", <<port[self]>>))
          ELSE NextAttempt(self, Append(ports[self], port[self]))
    /\ UNCHANGED <<minPort, maxPort, mu>>
    /\ UNCHANGED store

\* ReleasePort: Lock; delete(pm.usedPorts, port); Unlock
ReleasePort(self, p) ==
    /\ pc[self] = "idle"
    /\ mu = NoProc
    /\ usedPorts' = Released(usedPorts, p)
    /\ Return(self, "ReleasePort", p, 0, Ret("ok", <<>>))
    /\ after' = [q \in Procs |-> after[q] /\ port[q] # p]
    /\ UNCHANGED <<minPort, maxPort, mu, active>>
    /\ UNCHANGED store

\* SetPortRange: the validation; then Lock and pm.minPort = minPort
SetPortRange(self, mn, mx) ==
    /\ pc[self] = "idle"
    /\ IF ValidRange(mn, mx)
          THEN /\ mu = NoProc
               /\ mu' = self
               /\ minPort' = mn
               /\ pc' = [pc EXCEPT ![self] = "setmax"]
               /\ opName' = [opName EXCEPT ![self] = "SetPortRange"]
               /\ argA' = [argA EXCEPT ![self] = mn]
               /\ argB' = [argB EXCEPT ![self] = mx]
               /\ ret' = [ret EXCEPT ![self] = NoRet]
               /\ probes' = [probes EXCEPT ![self] = 0]
               /\ seen' = [seen EXCEPT ![self] = {}]
               /\ UNCHANGED <<maxPort, usedPorts, i, ports, rmax, k, port>>
          ELSE /\ Return(self, "SetPortRange", mn, mx, Ret("invalid", <<>>))
               /\ UNCHANGED shared
    /\ UNCHANGED <<after, active>>
    /\ UNCHANGED store

\* SetPortRange also drops the reservations outside the new range
SetPortRangeUnlockEvicts(self) ==
    /\ pc[self] = "setmax"
    /\ mu = self
    /\ maxPort' = argB[self]
    /\ mu' = NoProc
    /\ usedPorts' = {p \in usedPorts : argA[self] <= p /\ p <= argB[self]}
    /\ Done(self, Ret("ok", <<>>))
    /\ active' = <<argA[self], argB[self]>>
    /\ UNCHANGED <<minPort, after, seen>>
    /\ UNCHANGED store

\* SetPortRange: pm.maxPort = maxPort and Unlock; return nil
SetPortRangeUnlock(self) ==
    /\ pc[self] = "setmax"
    /\ mu = self
    /\ maxPort' = argB[self]
    /\ mu' = NoProc
    /\ Done(self, Ret("ok", <<>>))
    /\ active' = <<argA[self], argB[self]>>
    /\ seen' = [p \in Procs |-> IF opName[p] = "GetRandomPort" /\ pc[p] # "idle"
                                   THEN seen[p] \cup {<<argA[self], argB[self]>>}
                                   ELSE seen[p]]
    /\ UNCHANGED <<minPort, usedPorts, after>>
    /\ UNCHANGED store

\* GetPortRange: RLock; return pm.minPort, pm.maxPort
GetPortRange(self) ==
    /\ pc[self] = "idle"
    /\ mu = NoProc
    /\ Return(self, "GetPortRange", 0, 0, Ret("ok", <<minPort, maxPort>>))
    /\ UNCHANGED <<shared, after, active>>
    /\ UNCHANGED store

\* ------------------------------------------------------------ the registry
\* json.MarshalIndent(portData): the members of app_ports, one per name
Encode(m) == {<<n, m[n]>> : n \in DOMAIN m}

\* json.Unmarshal(data, &portData): the map of the members of app_ports
Decode(body) ==
    [n \in {e[1] : e \in body} |-> (CHOOSE e \in body : e[1] = n)[2]]

\* os.WriteFile(s.dataFile, data, 0644) with the serialized copy
Written(m) == [kind |-> "json", body |-> Encode(m)]

\* LoadFromFile: portData.AppPorts, and make(map[string]int) when it is nil
Parsed(f) == IF f.kind = "json" THEN Decode(f.body) ELSE EmptyMap

\* s.appPorts[appName] = port
Put(m, name, p) ==
    [n \in DOMAIN m \cup {name} |-> IF n = name THEN p ELSE m[n]]

\* delete(s.appPorts, appName)
Remove(m, name) == [n \in DOMAIN m \ {name} |-> m[n]]

\* what GetAppPort(name) returns from the registry's map
Stored(name) ==
    IF name \in DOMAIN appPorts THEN Ret("ok", <<appPorts[name]>>)
    ELSE Ret("notfound", <<>>)

\* SetAppPort: appName == "" and port <= 0 || port > 65535 are rejected
ValidApp(name, p) == name # "" /\ ~(p <= 0 \/ p > PortLimit)

\* what the caller of saveToFile returns: StopAutoSync drops the error
SaveResult(name, ok) ==
    IF name = "StopAutoSync" \/ ok THEN Ret("ok", <<>>) ELSE Ret("error", <<>>)

\* wg: the background goroutines that have not returned
Wg == Cardinality({l \in Loops : lpc[l] \notin {"none", "exited"}})

Crashed == \E p \in Procs : pc[p] = "crashed"

\* self calls a method of the registry with appName name: what its last
\* call left behind is forgotten
Call(self, name) ==
    /\ app' = [app EXCEPT ![self] = name]
    /\ flushed' = [flushed EXCEPT ![self] = "none"]

\* self sets or deletes names: no copy made before covers them any more
Changed(self, names) ==
    [p \in Procs |-> IF p = self THEN {} ELSE cov[p] \ names]

\* SetAppPort: the validation, then Lock; s.appPorts[appName] = port; Unlock
SetAppPort(self, name, p) ==
    /\ pc[self] = "idle"
    /\ IF ValidApp(name, p)
          THEN /\ smu = {}
               /\ appPorts' = Put(appPorts, name, p)
               /\ cov' = Changed(self, {name})
               /\ Return(self, "SetAppPort", p, 0, Ret("ok", <<>>))
          ELSE /\ Return(self, "SetAppPort", p, 0, Ret("error", <<>>))
               /\ cov' = Changed(self, {})
               /\ UNCHANGED appPorts
    /\ Call(self, name)
    /\ UNCHANGED <<manager, file, smu, snap, stopChan, lpc, hnd>>

\* GetAppPort: RLock; port, exists := s.appPorts[appName]; RUnlock
GetAppPort(self, name) ==
    /\ pc[self] = "idle"
    /\ Return(self, "GetAppPort", 0, 0,
              IF name = "" THEN Ret("error", <<>>)
              ELSE IF name \notin DOMAIN appPorts THEN Ret("notfound", <<>>)
              ELSE Ret("ok", <<appPorts[name]>>))
    /\ Call(self, name)
    /\ cov' = Changed(self, {})
    /\ UNCHANGED <<manager, appPorts, file, smu, snap, stopChan, lpc, hnd>>

\* DeleteAppPort: the critical section; saveToFile follows a deletion
DeleteAppPort(self, name) ==
    /\ pc[self] = "idle"
    /\ IF name = ""
          THEN /\ Return(self, "DeleteAppPort", 0, 0, Ret("error", <<>>))
               /\ cov' = Changed(self, {})
               /\ UNCHANGED <<manager, appPorts>>
          ELSE /\ smu = {}
               /\ IF name \notin DOMAIN appPorts
                     THEN /\ Return(self, "DeleteAppPort", 0, 0,
                                    Ret("notfound", <<>>))
                          /\ cov' = Changed(self, {})
                          /\ UNCHANGED <<manager, appPorts>>
                     ELSE /\ appPorts' = Remove(appPorts, name)
                          /\ cov' = Changed(self, {name})
                          /\ Enter(self, "DeleteAppPort", 0, 0, "svlock", NoRet)
                          /\ UNCHANGED <<port, after>>
    /\ Call(self, name)
    /\ UNCHANGED <<file, smu, snap, stopChan, lpc, hnd>>

\* SyncToFile: return s.saveToFile()
SyncToFile(self) ==
    /\ Enter(self, "SyncToFile", 0, 0, "svlock", NoRet)
    /\ Call(self, "")
    /\ cov' = Changed(self, {})
    /\ UNCHANGED <<port, after, appPorts, file, smu, snap, stopChan, lpc, hnd>>

\* saveToFile: RLock and the copy of s.appPorts into portData.AppPorts
SaveCopy(self) ==
    /\ pc[self] = "svlock"
    /\ smu' = smu \cup {self}
    /\ snap' = [snap EXCEPT ![self] = appPorts]
    /\ cov' = [cov EXCEPT ![self] = Names]
    /\ Goto(self, "svunlock")
    /\ UNCHANGED <<shared, appPorts, file, flushed, stopChan, lpc, app, hnd>>

HeldWhileWriting(held, self) == held

\* the holders of the read lock after self's s.mu.RUnlock()
RUnlocked(held, self) == held \ {self}

\* saveToFile: RUnlock
SaveUnlock(self) ==
    /\ pc[self] = "svunlock"
    /\ smu' = RUnlocked(smu, self)
    /\ Goto(self, "svwrite")
    /\ UNCHANGED <<shared, appPorts, file, snap, flushed, cov, stopChan, lpc,
                   app, hnd>>

\* saveToFile: json.MarshalIndent, os.MkdirAll and os.WriteFile, which succeed
\* or fail; then the caller returns
SaveWrite(self) ==
    /\ pc[self] = "svwrite"
    /\ \E ok \in BOOLEAN :
          /\ file' = IF ok THEN Written(snap[self]) ELSE file
          /\ flushed' = [flushed EXCEPT ![self] = IF ok THEN "ok" ELSE "error"]
          /\ Done(self, SaveResult(opName[self], ok))
    /\ snap' = [snap EXCEPT ![self] = EmptyMap]
    /\ UNCHANGED <<manager, seen, appPorts, smu, cov, stopChan, lpc, app, hnd>>

\* LoadFromFile: os.Stat and os.ReadFile; a missing file is created by
\* saveToFile, an empty one is left alone, any other is parsed
LoadFromFile(self) ==
    /\ pc[self] = "idle"
    /\ CASE file.kind = "absent" ->
               /\ Enter(self, "LoadFromFile", 0, 0, "svlock", NoRet)
               /\ UNCHANGED <<port, after, snap>>
         [] file.kind = "empty" ->
               /\ Return(self, "LoadFromFile", 0, 0, Ret("ok", <<>>))
               /\ UNCHANGED <<manager, snap>>
         [] file.kind = "bad" ->
               /\ Return(self, "LoadFromFile", 0, 0, Ret("error", <<>>))
               /\ UNCHANGED <<manager, snap>>
         [] OTHER ->
               /\ Enter(self, "LoadFromFile", 0, 0, "ldset", NoRet)
               /\ snap' = [snap EXCEPT ![self] = Parsed(file)]
               /\ UNCHANGED <<port, after>>
    /\ Call(self, "")
    /\ cov' = Changed(self, {})
    /\ UNCHANGED <<appPorts, file, smu, stopChan, lpc, hnd>>

\* LoadFromFile: Lock; s.appPorts = portData.AppPorts; Unlock; return nil
LoadSet(self) ==
    /\ pc[self] = "ldset"
    /\ smu = {}
    /\ appPorts' = snap[self]
    /\ cov' = Changed(self, Names)
    /\ Done(self, Ret("ok", <<>>))
    /\ snap' = [snap EXCEPT ![self] = EmptyMap]
    /\ UNCHANGED <<manager, seen, file, smu, flushed, stopChan, lpc, app, hnd>>

\* StartAutoSync: s.wg.Add(1) and go func, the new goroutine being l
StartAutoSync(self, l) ==
    /\ pc[self] = "idle"
    /\ lpc[l] = "none"
    /\ lpc' = [lpc EXCEPT ![l] = "select"]
    /\ Return(self, "StartAutoSync", 0, 0, Ret("ok", <<>>))
    /\ Call(self, "")
    /\ cov' = Changed(self, {})
    /\ UNCHANGED <<manager, appPorts, file, smu, snap, stopChan, hnd>>

\* a step of the background goroutine l leaves every caller alone
LoopFrame ==
    UNCHANGED <<manager, pc, opName, argA, argB, i, ports, rmax, k, port, ret,
                probes, seen, appPorts, cov, stopChan, app, hnd>>

\* case <-ticker.C: saveToFile, its RLock and copy
LoopCopy(l) ==
    /\ lpc[l] = "select"
    /\ ~Crashed
    /\ smu' = smu \cup {l}
    /\ snap' = [snap EXCEPT ![l] = appPorts]
    /\ lpc' = [lpc EXCEPT ![l] = "svunlock"]
    /\ LoopFrame
    /\ UNCHANGED <<file, flushed>>

\* saveToFile: RUnlock
LoopUnlock(l) ==
    /\ lpc[l] = "svunlock"
    /\ ~Crashed
    /\ smu' = RUnlocked(smu, l)
    /\ lpc' = [lpc EXCEPT ![l] = "svwrite"]
    /\ LoopFrame
    /\ UNCHANGED <<file, snap, flushed>>

AfterFlushExits(ok) == IF ok THEN "select" ELSE "exited"

\* where the background goroutine goes after its saveToFile returned: an
\* error is printed, and the for loop goes on to its next select
AfterFlush(ok) == "select"

\* saveToFile: the write, and the loop's handling of its result
LoopWrite(l) ==
    /\ lpc[l] = "svwrite"
    /\ ~Crashed
    /\ \E ok \in BOOLEAN :
          /\ file' = IF ok THEN Written(snap[l]) ELSE file
          /\ flushed' = [flushed EXCEPT ![l] = IF ok THEN "ok" ELSE "error"]
          /\ lpc' = [lpc EXCEPT ![l] = AfterFlush(ok)]
    /\ snap' = [snap EXCEPT ![l] = EmptyMap]
    /\ LoopFrame
    /\ UNCHANGED smu

\* case <-s.stopChan: return, and the deferred s.wg.Done()
LoopStop(l) ==
    /\ lpc[l] = "select"
    /\ ~Crashed
    /\ stopChan
    /\ lpc' = [lpc EXCEPT ![l] = "exited"]
    /\ LoopFrame
    /\ UNCHANGED <<file, smu, snap, flushed>>

\* StopAutoSync: close(s.stopChan), which panics on a closed channel
StopAutoSync(self) ==
    /\ pc[self] = "idle"
    /\ IF stopChan
          THEN /\ Panic(self)
               /\ UNCHANGED <<shared, stopChan, app, flushed, cov>>
          ELSE /\ stopChan' = TRUE
               /\ Enter(self, "StopAutoSync", 0, 0, "stopwait", NoRet)
               /\ Call(self, "")
               /\ cov' = Changed(self, {})
               /\ UNCHANGED <<port, after>>
    /\ UNCHANGED <<appPorts, file, smu, snap, lpc, hnd>>

\* s.wg.Wait() returns when every background goroutine has returned
WgDone == Wg = 0

\* StopAutoSync: s.wg.Wait(); saveToFile follows
StopWait(self) ==
    /\ pc[self] = "stopwait"
    /\ WgDone
    /\ Goto(self, "svlock")
    /\ UNCHANGED <<shared, store>>

\* ------------------------------------------------------------- the adapter
\* the handler name of PortServer runs for appName at position at
Handling(name, appName, at) ==
    [op |-> name, app |-> appName, at |-> at, port |-> 0, err |-> FALSE]

\* the handler's response: Port and Error
Reply(h, p, e) == [h EXCEPT !.at = "reply", !.port = p, !.err = e]

\* QuickSetAppPort: s.storage.HasApp(req.AppName); when the name is not
\* registered, the call of s.portManager.GetRandomPort()
QuickSetAppPort(self, name) ==
    /\ pc[self] = "idle"
    /\ hnd[self].at \in {"none", "reply"}
    /\ IF name \in DOMAIN appPorts
          THEN /\ hnd' = [hnd EXCEPT
                             ![self] = Handling("QuickSetAppPort", name, "get")]
               /\ UNCHANGED <<manager, pc, opName, argA, argB, i, ports, rmax,
                              k, port, ret, probes, seen>>
          ELSE /\ hnd' = [hnd EXCEPT
                             ![self] = Handling("QuickSetAppPort", name, "wait")]
               /\ Enter(self, "GetRandomPort", 0, 0, "loop", NoRet)
               /\ after' = [after EXCEPT ![self] = FALSE]
               /\ UNCHANGED port
    /\ UNCHANGED <<appPorts, file, smu, snap, flushed, cov, stopChan, lpc, app>>

\* QuickSetAppPort, the name being registered: s.storage.GetAppPort and the
\* response
QuickGetAppPort(self) ==
    /\ hnd[self].at = "get"
    /\ LET r == Stored(hnd[self].app) IN
          hnd' = [hnd EXCEPT ![self] =
                     IF r.st = "ok" THEN Reply(@, r.val[1], FALSE)
                     ELSE Reply(@, 0, TRUE)]
    /\ UNCHANGED <<manager, pc, opName, argA, argB, i, ports, rmax, k, port,
                   ret, probes, seen>>
    /\ UNCHANGED <<appPorts, file, smu, snap, flushed, cov, stopChan, lpc, app>>

\* QuickSetAppPort, GetRandomPort having returned: its error, or
\* s.storage.SetAppPort(req.AppName, port), and the response
QuickStore(self) ==
    /\ hnd[self].op = "QuickSetAppPort"
    /\ hnd[self].at = "wait"
    /\ pc[self] = "idle"
    /\ IF ret[self].st = "ok" /\ ValidApp(hnd[self].app, ret[self].val[1])
          THEN /\ smu = {}
               /\ appPorts' = Put(appPorts, hnd[self].app, ret[self].val[1])
               /\ cov' = Changed(self, {hnd[self].app})
               /\ hnd' = [hnd EXCEPT ![self] = Reply(@, ret[self].val[1], FALSE)]
          ELSE /\ hnd' = [hnd EXCEPT ![self] = Reply(@, 0, TRUE)]
               /\ UNCHANGED <<appPorts, cov>>
    /\ UNCHANGED <<manager, pc, opName, argA, argB, i, ports, rmax, k, port,
                   ret, probes, seen>>
    /\ UNCHANGED <<file, smu, snap, flushed, stopChan, lpc, app>>

\* PortServer.DeleteAppPort: the check of req.AppName, and
\* s.storage.GetAppPort(req.AppName), whose port is kept for the release
ServeDeleteAppPort(self, name) ==
    /\ pc[self] = "idle"
    /\ hnd[self].at \in {"none", "reply"}
    /\ hnd' = [hnd EXCEPT ![self] =
                  IF name = ""
                     THEN Reply(Handling("DeleteAppPort", name, "reply"), 0, TRUE)
                  ELSE IF Stored(name).st = "ok"
                     THEN [Handling("DeleteAppPort", name, "release")
                              EXCEPT !.port = Stored(name).val[1]]
                  ELSE Handling("DeleteAppPort", name, "delete")]
    /\ UNCHANGED <<manager, pc, opName, argA, argB, i, ports, rmax, k, port,
                   ret, probes, seen>>
    /\ UNCHANGED <<appPorts, file, smu, snap, flushed, cov, stopChan, lpc, app>>

\* PortServer.DeleteAppPort: s.portManager.ReleasePort(port)
ServeRelease(self) ==
    /\ hnd[self].at = "release"
    /\ mu = NoProc
    /\ usedPorts' = Released(usedPorts, hnd[self].port)
    /\ after' = [q \in Procs |-> after[q] /\ port[q] # hnd[self].port]
    /\ hnd' = [hnd EXCEPT ![self].at = "delete"]
    /\ UNCHANGED <<minPort, maxPort, mu, active, pc, opName, argA, argB, i,
                   ports, rmax, k, port, ret, probes, seen>>
    /\ UNCHANGED <<appPorts, file, smu, snap, flushed, cov, stopChan, lpc, app>>

\* PortServer.DeleteAppPort: the call of s.storage.DeleteAppPort(req.AppName),
\* its critical section; an unknown name is its error and the response
ServeDelete(self) ==
    /\ hnd[self].at = "delete"
    /\ pc[self] = "idle"
    /\ smu = {}
    /\ IF hnd[self].app \notin DOMAIN appPorts
          THEN /\ Return(self, "DeleteAppPort", 0, 0, Ret("notfound", <<>>))
               /\ cov' = Changed(self, {})
               /\ hnd' = [hnd EXCEPT ![self] = Reply(@, @.port, TRUE)]
               /\ UNCHANGED <<manager, appPorts>>
          ELSE /\ appPorts' = Remove(appPorts, hnd[self].app)
               /\ cov' = Changed(self, {hnd[self].app})
               /\ Enter(self, "DeleteAppPort", 0, 0, "svlock", NoRet)
               /\ hnd' = [hnd EXCEPT ![self].at = "wait"]
               /\ UNCHANGED <<port, after>>
    /\ Call(self, hnd[self].app)
    /\ UNCHANGED <<file, smu, snap, stopChan, lpc>>

\* PortServer.DeleteAppPort: s.storage.DeleteAppPort has returned; the response
ServeDeleteReply(self) ==
    /\ hnd[self].op = "DeleteAppPort"
    /\ hnd[self].at = "wait"
    /\ pc[self] = "idle"
    /\ hnd' = [hnd EXCEPT ![self] = Reply(@, @.port, ret[self].st # "ok")]
    /\ UNCHANGED <<manager, pc, opName, argA, argB, i, ports, rmax, k, port,
                   ret, probes, seen>>
    /\ UNCHANGED <<appPorts, file, smu, snap, flushed, cov, stopChan, lpc, app>>

\* --------------------------------------------------------- specifications
\* a caller that allocates one port at a time and asks for availability, next
\* to a goroutine that releases ports and sets the range
Next ==
    \/ CallGetRandomPort(G1)
    \/ \E p \in PortArgs : CallIsPortAvailable(G1, p)
    \/ AllocLoop(G1, FALSE)
    \/ AllocIntn(G1)
    \/ AllocDraw(G1)
    \/ CheckMin(G1)
    \/ CheckMax(G1)
    \/ CheckUsed(G1)
    \/ Mark(G1)
    \/ \E p \in PortArgs : ReleasePort(G2, p)
    \/ \E mn, mx \in RangeVals : SetPortRange(G2, mn, mx)
    \/ SetPortRangeUnlock(G2)
    \/ GetPortRange(G2)

Spec == Init /\ [][Next]_vars

\* a caller of GetRandomPorts, next to a goroutine that allocates single ports
\* and releases ports
NextMany ==
    \/ \E c \in CountArgs : CallGetRandomPorts(G1, c)
    \/ CallGetRandomPort(G2)
    \/ \E self \in Procs : AllocLoop(self, FALSE)
    \/ \E self \in Procs : AllocIntn(self)
    \/ \E self \in Procs : AllocDraw(self)
    \/ \E self \in Procs : CheckMin(self)
    \/ \E self \in Procs : CheckMax(self)
    \/ \E self \in Procs : CheckUsed(self)
    \/ \E self \in Procs : Mark(self)
    \/ \E p \in PortArgs : ReleasePort(G2, p)

SpecMany == Init /\ [][NextMany]_vars

\* two goroutines that call GetRandomPort; one also asks for availability, the
\* other also releases ports and sets the range
NextOne ==
    \/ \E self \in Procs : CallGetRandomPort(self)
    \/ \E p \in PortArgs : CallIsPortAvailable(G1, p)
    \/ \E self \in Procs : AllocLoop(self, FALSE)
    \/ \E self \in Procs : AllocIntn(self)
    \/ \E self \in Procs : AllocDraw(self)
    \/ \E self \in Procs : CheckMin(self)
    \/ \E self \in Procs : CheckMax(self)
    \/ \E self \in Procs : CheckUsed(self)
    \/ \E self \in Procs : Mark(self)
    \/ \E p \in PortArgs : ReleasePort(G2, p)
    \/ \E mn, mx \in RangeVals : SetPortRange(G2, mn, mx)
    \/ SetPortRangeUnlock(G2)

SpecOne == Init /\ [][NextOne]_vars

\* one caller, whose allocation calls are followed through their whole budget
NextSeq ==
    \/ CallGetRandomPort(G1)
    \/ \E c \in CountArgs : CallGetRandomPorts(G1, c)
    \/ AllocLoop(G1, TRUE)
    \/ AllocIntn(G1)
    \/ AllocDraw(G1)
    \/ CheckMin(G1)
    \/ CheckMax(G1)
    \/ CheckUsed(G1)
    \/ Mark(G1)
    \/ \E p \in PortArgs : ReleasePort(G1, p)

SpecSeq == Init /\ [][NextSeq]_vars

\* callers of SetPortRange and GetPortRange, with bounds around PortLimit
NextRange ==
    \/ \E self \in Procs : \E mn, mx \in WideVals : SetPortRange(self, mn, mx)
    \/ \E self \in Procs : SetPortRangeUnlock(self)
    \/ \E self \in Procs : GetPortRange(self)

SpecRange == Init /\ [][NextRange]_vars

\* the registry's flushes: one caller sets, gets and deletes, the other
\* starts the background sync and flushes by hand, next to the background
\* goroutine
NextFlush ==
    \/ \E n \in {"", "a"} : \E p \in AppPortArgs : SetAppPort(G1, n, p)
    \/ \E n \in {"", "a"} : GetAppPort(G1, n)
    \/ \E n \in {"", "a"} : DeleteAppPort(G1, n)
    \/ StartAutoSync(G2, "l1")
    \/ SyncToFile(G2)
    \/ \E self \in Procs : SaveCopy(self)
    \/ \E self \in Procs : SaveUnlock(self)
    \/ \E self \in Procs : SaveWrite(self)
    \/ LoopCopy("l1")
    \/ LoopUnlock("l1")
    \/ LoopWrite("l1")

SpecFlush == Init /\ [][NextFlush]_vars

\* the registry's load: one caller sets names, flushes and loads, from any
\* data file
NextLoad ==
    \/ \E n \in Names : \E p \in AppPortArgs : SetAppPort(G1, n, p)
    \/ SyncToFile(G1)
    \/ LoadFromFile(G1)
    \/ LoadSet(G1)
    \/ SaveCopy(G1)
    \/ SaveUnlock(G1)
    \/ SaveWrite(G1)

SpecLoad == InitStore /\ [][NextLoad]_vars

\* the background sync's life: the main goroutine starts and stops it, next
\* to a caller that sets a name, and the background goroutines
NextLife ==
    \/ \E l \in Loops : StartAutoSync(G1, l)
    \/ StopAutoSync(G1)
    \/ StopWait(G1)
    \/ SaveCopy(G1)
    \/ SaveUnlock(G1)
    \/ SaveWrite(G1)
    \/ \E p \in AppPortArgs : SetAppPort(G2, "a", p)
    \/ \E l \in Loops : LoopCopy(l)
    \/ \E l \in Loops : LoopUnlock(l)
    \/ \E l \in Loops : LoopWrite(l)
    \/ \E l \in Loops : LoopStop(l)

SpecLife == Init /\ [][NextLife]_vars

\* two requests at a time, each a QuickSetAppPort
NextQuick ==
    \/ \E self \in Procs : \E n \in Names : QuickSetAppPort(self, n)
    \/ \E self \in Procs : QuickGetAppPort(self)
    \/ \E self \in Procs : QuickStore(self)
    \/ \E self \in Procs : AllocLoop(self, FALSE)
    \/ \E self \in Procs : AllocIntn(self)
    \/ \E self \in Procs : AllocDraw(self)
    \/ \E self \in Procs : CheckMin(self)
    \/ \E self \in Procs : CheckMax(self)
    \/ \E self \in Procs : CheckUsed(self)
    \/ \E self \in Procs : Mark(self)

SpecQuick == Init /\ [][NextQuick]_vars

\* one request at a time, a QuickSetAppPort or a DeleteAppPort
NextDelete ==
    \/ \E n \in Names : QuickSetAppPort(G1, n)
    \/ QuickGetAppPort(G1)
    \/ QuickStore(G1)
    \/ AllocLoop(G1, FALSE)
    \/ AllocIntn(G1)
    \/ AllocDraw(G1)
    \/ CheckMin(G1)
    \/ CheckMax(G1)
    \/ CheckUsed(G1)
    \/ Mark(G1)
    \/ \E n \in NameArgs : ServeDeleteAppPort(G1, n)
    \/ ServeRelease(G1)
    \/ ServeDelete(G1)
    \/ ServeDeleteReply(G1)
    \/ SaveCopy(G1)
    \/ SaveUnlock(G1)
    \/ SaveWrite(G1)

SpecDelete == Init /\ [][NextDelete]_vars

TypeOK ==
    /\ usedPorts \subseteq Int
    /\ mu \in Procs \cup {NoProc}
    /\ \A p \in Procs : ret[p].st \in {"none", "ok", "exhausted", "invalid",
                                       "panic", "true", "false", "error",
                                       "notfound"}
    /\ \A p \in Procs : probes[p] >= 0
    /\ DOMAIN appPorts \subseteq Names
    /\ file.kind \in {"absent", "empty", "null", "bad", "json"}
    /\ smu \subseteq Flushers
    /\ \A f \in Flushers : flushed[f] \in {"none", "ok", "error"}
    /\ \A l \in Loops : lpc[l] \in {"none", "select", "svunlock", "svwrite",
                                    "exited"}
    /\ \A p \in Procs : /\ hnd[p].at \in {"none", "get", "wait", "release", "delete",
                                          "reply"}
                        /\ hnd[p].app \in NameArgs
                        /\ hnd[p].port \in 0..PortLimit
                        /\ hnd[p].err \in BOOLEAN

\* ------------------------------------------------------------------ claims
NoDuplicates(s) == \A a, b \in 1..Len(s) : a # b => s[a] # s[b]
InRange(p, r) == r[1] <= p /\ p <= r[2]
Finished(self, name) == opName[self] = name /\ pc[self] = "idle"

\* C1: no port is returned to two concurrent allocation calls with no release
\* in between: a call marks and returns a port only when no other call has
\* been handed that port (checked under SpecOne)
C1_NoDoubleAllocation ==
    [][\A self \in Procs : Mark(self) => port[self] \notin Handed]_vars

\* C2: a port that GetRandomPort returned stays reserved until ReleasePort:
\* the port is marked when the call returns; and an examination of a port
\* that began while the port was handed out and not released since never
\* finds it available, neither IsPortAvailable nor a later allocation
\* (checked under SpecOne)
C2_ReservedUntilRelease ==
    /\ [](\A self \in Procs :
             after[self] =>
                /\ pc[self] # "mark"
                /\ ~(Finished(self, "IsPortAvailable") /\ ret[self].st = "true"))
    /\ [][\A self \in Procs :
             (Mark(self) /\ opName[self] = "GetRandomPort") =>
                 /\ ret'[self] = Ret("ok", <<port[self]>>)
                 /\ port[self] \in usedPorts']_vars

\* IsPortAvailable(p) has answered false for a port of the range that is
\* handed out, whatever the OS would have said
C2_Witness ==
    \E self \in Procs :
        /\ Finished(self, "IsPortAvailable")
        /\ ret[self].st = "false"
        /\ after[self]
        /\ mu = NoProc
        /\ argA[self] \in usedPorts
        /\ InRange(argA[self], <<minPort, maxPort>>)

\* C3: the port GetRandomPort returns lies within a range that was active at
\* some instant during the call, SetPortRange running concurrently (checked
\* under Spec)
C3_PortInActiveRange ==
    \A self \in Procs :
        (Finished(self, "GetRandomPort") /\ ret[self].st = "ok") =>
            \E r \in seen[self] : InRange(ret[self].val[1], r)

\* C4: the result of GetRandomPorts never holds the same port twice, also
\* when other callers release and allocate ports in the meantime (checked under
\* SpecMany)
C4_NoDuplicates ==
    \A self \in Procs :
        /\ NoDuplicates(ports[self])
        /\ Finished(self, "GetRandomPorts") => NoDuplicates(ret[self].val)

\* GetRandomPorts examines anew a port it already holds in its batch, which
\* another caller has released in the meantime
C4_Witness ==
    \E self \in Procs :
        /\ opName[self] = "GetRandomPorts"
        /\ pc[self] = "chkused"
        /\ AlreadyExists(ports[self], port[self])
        /\ port[self] \notin usedPorts

\* C5, as stated: GetRandomPorts(count) returns an error exactly when it
\* found fewer than count ports, then with the ports found, each marked;
\* without an error it returns exactly count ports (checked under SpecSeq)
C5_ErrorIffFewer ==
    \A self \in Procs :
        Finished(self, "GetRandomPorts") =>
            /\ (ret[self].st # "ok") <=> (Len(ret[self].val) < argA[self])
            /\ ret[self].st = "ok" => Len(ret[self].val) = argA[self]
            /\ Range(ret[self].val) \subseteq usedPorts

\* C5, amended: for count > 0 the above; for count <= 0 the call returns an
\* error and no port, without a probe (checked under SpecSeq)
C5_ManyResult ==
    \A self \in Procs :
        Finished(self, "GetRandomPorts") =>
            IF argA[self] <= 0
               THEN /\ ret[self] = Ret("invalid", <<>>)
                    /\ probes[self] = 0
               ELSE /\ ret[self].st \in {"ok", "exhausted"}
                    /\ (ret[self].st = "exhausted") <=>
                           (Len(ret[self].val) < argA[self])
                    /\ ret[self].st = "ok" => Len(ret[self].val) = argA[self]
                    /\ NoDuplicates(ret[self].val)
                    /\ Range(ret[self].val) \subseteq usedPorts

\* GetRandomPorts has used its whole budget and returns, with the error, the
\* one port it found
C5_Witness ==
    \E self \in Procs :
        /\ Finished(self, "GetRandomPorts")
        /\ ret[self].st = "exhausted"
        /\ Len(ret[self].val) = 1
        /\ argA[self] = 2
        /\ probes[self] = 2 * AttemptsPerPort

\* C6: ReleasePort never fails and removes exactly its port from the
\* reservation set, which it leaves alone when the port is not in it; no
\* other port and no bound of the range changes (checked under Spec)
C6_ReleaseRemovesOnlyPort ==
    [][\A self \in Procs :
          LET p == argA'[self] IN
          ReleasePort(self, p) =>
             /\ ret'[self].st = "ok"
             /\ usedPorts' = usedPorts \ {p}
             /\ p \notin usedPorts => usedPorts' = usedPorts
             /\ UNCHANGED <<minPort, maxPort>>]_vars

\* ReleasePort has been called for a port that is not reserved and lies
\* outside the range, other ports being reserved
C6_Witness ==
    \E self \in Procs :
        /\ Finished(self, "ReleasePort")
        /\ mu = NoProc
        /\ argA[self] \notin usedPorts
        /\ ~InRange(argA[self], <<minPort, maxPort>>)
        /\ usedPorts # {}

C8_RangeInvariant ==
    mu = NoProc => (1 <= minPort /\ minPort <= maxPort /\ maxPort <= PortLimit)

\* C9: a reserved port leaves the reservation set only through ReleasePort of
\* that port; SetPortRange evicts nothing, not even a port outside the new
\* range (checked under Spec)
C9_OnlyReleaseRemoves ==
    [][\A p \in usedPorts :
          p \notin usedPorts' => \E self \in Procs : ReleasePort(self, p)]_vars

\* SetPortRange has succeeded and a port outside its range is still reserved
C9_Witness ==
    \E self \in Procs :
        /\ Finished(self, "SetPortRange")
        /\ ret[self].st = "ok"
        /\ <<minPort, maxPort>> = <<argA[self], argB[self]>>
        /\ \E p \in usedPorts : ~InRange(p, <<minPort, maxPort>>)

\* the probes an allocation call may make
Budget(self) ==
    CASE opName[self] = "GetRandomPort" -> OneAttempts
      [] opName[self] = "GetRandomPorts" -> argA[self] * AttemptsPerPort
      [] OTHER -> 0

\* C10: an allocation call makes at most 100 probes (GetRandomPort) or
\* count * 100 (GetRandomPorts) and then returns a result or the exhaustion
\* error: it never ends in a panic (checked under Spec)
C10_BoundedThenReturns ==
    \A self \in Procs :
        /\ probes[self] <= Budget(self)
        /\ ret[self].st # "panic"

\* ------------------------------------------------- claims on the registry
\* what Get(name) returns from a new registry that has loaded the file f
Reloaded(f, name) ==
    IF name \in DOMAIN Parsed(f) THEN Ret("ok", <<Parsed(f)[name]>>)
    ELSE Ret("notfound", <<>>)
\* the names self's last flush covers that are registered now
Covered(self) == cov[self] \cap DOMAIN appPorts

\* C11: round trip: after SetAppPort(name, port) returned ok the map holds
\* port for name; and once SyncToFile returned ok, a new registry that loads
\* the file returns, for every name registered before the flush and not set
\* or deleted since, the port the map holds (checked under SpecFlush)
C11_RoundTrip ==
    \A self \in Procs :
       /\ (Finished(self, "SetAppPort") /\ ret[self].st = "ok")
             => /\ app[self] \in DOMAIN appPorts
                /\ appPorts[app[self]] = argA[self]
       /\ (Finished(self, "SyncToFile") /\ ret[self].st = "ok")
             => \A n \in Covered(self) :
                   Reloaded(file, n) = Ret("ok", <<appPorts[n]>>)

\* C12: once DeleteAppPort(name) returned ok, the name is not registered and
\* the file does not contain it: a new registry that loads the file does not
\* find the name, whatever other flush was in progress (checked under
\* SpecFlush, where only the deleting caller sets names)
C12_DeleteDurable ==
    \A self \in Procs :
       (Finished(self, "DeleteAppPort") /\ ret[self].st = "ok")
          => /\ app[self] \notin DOMAIN appPorts
             /\ Reloaded(file, app[self]) = Ret("notfound", <<>>)

\* the background goroutines that have been started and have not returned
Active == {l \in Loops : lpc[l] \notin {"none", "exited"}}

\* C13: when StopAutoSync has returned, no background goroutine is running,
\* and the file holds the map as of the final flush: a new registry that
\* loads it agrees with the map on every name not set since the final flush
\* took its copy (checked under SpecLife)
C13_StopThenFinalFlush ==
    \A self \in Procs :
       Finished(self, "StopAutoSync")
          => /\ Active = {}
             /\ \A n \in cov[self] : Reloaded(file, n) = Stored(n)

\* C14: at most one background goroutine is active at any time (checked
\* under SpecLife)
C14_OneLoop == Cardinality(Active) <= 1

\* C15: a caller whose flush failed returns an error (checked under SpecLife)
C15_NoSwallowedError ==
    \A self \in Procs :
       (pc[self] = "idle" /\ flushed[self] = "error") => ret[self].st = "error"

\* C16: after LoadFromFile returned ok the data file exists and the map is the
\* mapping the file stores, whatever the map held before (checked under
\* SpecLoad, where no other goroutine runs during the load)
C16_LoadReplaces ==
    \A self \in Procs :
       (Finished(self, "LoadFromFile") /\ ret[self].st = "ok")
          => /\ file.kind # "absent"
             /\ appPorts = Parsed(file)

\* C17: the candidate computation of GetRandomPort uses a (min, max) pair
\* that was the active range at one instant of the call: when the call reads
\* pm.minPort, that value and the pm.maxPort it has read before form a range
\* that was active during the call (checked under Spec)
C17_ConsistentRangeReads ==
    [][\A self \in Procs :
          (opName[self] = "GetRandomPort" /\ pc[self] = "rdmin"
              /\ pc'[self] # "rdmin")
             => <<minPort, rmax[self]>> \in seen[self]]_vars

\* C18: a failed periodic flush does not end the background goroutine: it
\* returns only from its select, when stopChan is closed; after every flush,
\* failed or not, it is back at its select; every tick copies the whole map,
\* and a tick whose write succeeds leaves that copy in the file (checked under
\* SpecLife)
C18_FailedFlushKeepsLoop ==
    [][\A l \in Loops :
          /\ (lpc[l] # "exited" /\ lpc'[l] = "exited")
                => (lpc[l] = "select" /\ stopChan)
          /\ (lpc[l] = "select" /\ lpc'[l] = "svunlock")
                => snap'[l] = appPorts
          /\ (lpc[l] = "svwrite" /\ lpc'[l] # "svwrite")
                => /\ lpc'[l] = "select"
                   /\ flushed'[l] = "ok" => file' = Written(snap[l])]_vars

\* a background goroutine whose last flush failed is writing again, with a
\* copy that holds a name the file does not hold yet, and no stop was asked
C18_Witness ==
    \E l \in Loops :
       /\ lpc[l] = "svwrite"
       /\ flushed[l] = "error"
       /\ ~stopChan
       /\ "a" \in DOMAIN snap[l]
       /\ Reloaded(file, "a") = Ret("notfound", <<>>)

\* the goroutines that are serializing and writing their copy
Writing ==
    {p \in Procs : pc[p] = "svwrite"} \cup {l \in Loops : lpc[l] = "svwrite"}
\* the goroutines between the RLock and the RUnlock of saveToFile
Copying ==
    {p \in Procs : pc[p] = "svunlock"} \cup {l \in Loops : lpc[l] = "svunlock"}

\* C19: saveToFile holds the read lock only while it copies: the holders of
\* the read lock are the goroutines between its RLock and RUnlock, never one
\* that is writing, so no writer of the file keeps SetAppPort waiting; the
\* copy is the whole map as it stands when the read lock is released, and a
\* successful write leaves exactly that copy in the file (checked under
\* SpecFlush)
C19_LockOnlyWhileCopying ==
    /\ [](smu = Copying)
    /\ [][\A f \in Flushers :
             /\ (f \in Copying /\ f \notin Copying') => snap[f] = appPorts
             /\ (f \in Writing /\ f \in Writing') => snap'[f] = snap[f]
             /\ (f \in Writing /\ f \notin Writing' /\ file' # file)
                   => file' = Written(snap[f])]_vars

\* SetAppPort has returned while another goroutine is writing a copy taken
\* before it: the map already holds what the copy does not
C19_Witness ==
    /\ Finished(G1, "SetAppPort")
    /\ ret[G1].st = "ok"
    /\ pc[G2] = "svwrite"
    /\ smu = {}
    /\ app[G1] \notin cov[G2]
    /\ snap[G2] # appPorts

\* the requests that QuickSetAppPort has answered for name with a port
Answered(name) ==
    {p \in Procs : /\ hnd[p] = Reply(Handling("QuickSetAppPort", name, "reply"),
                                     hnd[p].port, FALSE)}
\* no request is being handled
Quiet == \A p \in Procs : hnd[p].at \in {"none", "reply"}

\* C20: the requests QuickSetAppPort has answered for one name all got the
\* port the registry stores for the name; and when no request is in progress,
\* every reserved port is the port of a registered name (checked under
\* SpecQuick)
C20_QuickSetAtomic ==
    /\ \A n \in Names : \A p \in Answered(n) : Stored(n) = Ret("ok", <<hnd[p].port>>)
    /\ Quiet => \A q \in usedPorts : \E n \in DOMAIN appPorts : appPorts[n] = q

\* the requests that DeleteAppPort has answered with an error, for a name
\* that was registered when the handler looked its port up
Refused ==
    {p \in Procs : /\ hnd[p].op = "DeleteAppPort"
                   /\ hnd[p].at = "reply"
                   /\ hnd[p].err
                   /\ hnd[p].port # 0}

\* C21: a deletion that returns an error changes nothing: when the registry's
\* DeleteAppPort returned the error of its flush, the name, which was
\* registered when it was called, is still registered; and when the
\* adapter's DeleteAppPort answered with an error, the port it had looked up
\* is still the name's port and is still reserved (checked under SpecDelete,
\* where one request runs at a time)
C21_FailedDeleteChangesNothing ==
    \A self \in Procs :
       /\ (Finished(self, "DeleteAppPort") /\ flushed[self] = "error")
             => /\ ret[self].st = "error"
                /\ app[self] \in DOMAIN appPorts
       /\ self \in Refused
             => /\ Stored(hnd[self].app) = Ret("ok", <<hnd[self].port>>)
                /\ hnd[self].port \in usedPorts

====
